---- MODULE Spec2Model ----
(***************************************************************************)
(* Model of python/tvm/build.py: the BuildConfig scope stack, get_binds,   *)
(* the lower pipeline and build.                                           *)
(***************************************************************************)
EXTENDS Integers, Sequences, FiniteSets, TLC

(***************************************************************************)
(* Bounds of the model.                                                    *)
(***************************************************************************)
\* BuildConfig objects that exist at once, the root included.
MaxObjects == 3
\* Calls of __enter__ in one run.
MaxEnters == 3

VARIABLES
    attr,       \* attr[c]: the _attr dict of BuildConfig object c
    old_scope,  \* old_scope[c]: the _old_scope field of object c
    current,    \* BuildConfig.current
    exc,        \* the exception in flight through the open with-blocks
    err,        \* how the last call ended for its caller
    scopes,     \* history: the open scope activations, innermost last
    lifo,       \* history: every exit so far closed the innermost activation
    ctor,       \* history: ctor[c] is the kwargs object c was constructed with
    entered,    \* history: the objects __enter__ was ever called on
    nenter,     \* history: the number of __enter__ calls so far
    last,       \* history: the last operation
    table,      \* the caller's binds dict (the object a call may be given)
    call,       \* the get_binds or lower call in progress, with its inputs
    pc,         \* the position of that call
    loc,        \* the locals sch, bounds and stmt of lower
    trace,      \* the calls made by the call in progress, in order
    ret         \* how the call ended: the exception or the value returned

cfgvars == <<attr, old_scope, current, exc, err, scopes, lifo, ctor, entered, nenter, last>>
callvars == <<table, call, pc, loc, trace, ret>>
vars == <<cfgvars, callvars>>

\* Python's None, as a value no object id equals.
None == -1

\* The object line 57 installs as BuildConfig.current.
Root == 1

\* BuildConfig.defaults
defaults ==
    ("auto_unroll_max_step" :> 0) @@
    ("auto_unroll_min_depth" :> 1) @@
    ("unroll_explicit" :> TRUE) @@
    ("detect_global_barrier" :> TRUE)

\* The empty dict.
EmptyDict == <<>>

\* Keyword arguments the model constructs configs with: recognized names only.
GoodKwargs ==
    { EmptyDict,
      ("auto_unroll_max_step" :> 8) @@ ("unroll_explicit" :> FALSE),
      ("auto_unroll_max_step" :> 0) @@ ("auto_unroll_min_depth" :> 2) @@
          ("detect_global_barrier" :> FALSE) }

\* Keyword arguments with at least one name outside BuildConfig.defaults.
BadKwargs ==
    { ("loop_partition" :> TRUE),
      ("loop_partition" :> TRUE) @@ ("max_unroll" :> 4),
      ("auto_unroll_max_step" :> 8) @@ ("auto_unroll_min_depth" :> 2) @@
          ("unroll_explicit" :> FALSE) @@ ("detect_global_barrier" :> FALSE) @@
          ("max_unroll" :> 4) }

Kwargs == GoodKwargs \cup BadKwargs

Objects == 1..Len(attr)

\* dict.copy() followed by dict.update(): the keys of upd win.
DictUpdate(base, upd) ==
    [k \in (DOMAIN base) \cup (DOMAIN upd) |->
        IF k \in DOMAIN upd THEN upd[k] ELSE base[k]]

\* BuildConfig.__getattr__ on an _attr dict a.
BuildConfig_getattr(a, name) ==
    IF name \notin DOMAIN a THEN defaults[name] ELSE a[name]

\* The four option values read from an _attr dict.
Options(a) == [name \in DOMAIN defaults |-> BuildConfig_getattr(a, name)]

\* Mutant of InvalidArgument: rejects only when no keyword is a key of defaults.
InvalidArgument_NoneKnown(kwargs) ==
    /\ DOMAIN kwargs # {}
    /\ \A k \in DOMAIN kwargs : k \notin DOMAIN defaults

\* The check of __init__: some keyword is not a key of BuildConfig.defaults.
InvalidArgument(kwargs) == \E k \in DOMAIN kwargs : k \notin DOMAIN defaults

\* Python truth of an _old_scope value: None is false, an object is true.
Truthy(x) == x # None

\* What __enter__ makes of self._attr.
EnterAttr(cur, self) == DictUpdate(attr[cur], attr[self])

\* Mutant of ExitAssertion: the assertion is left out.
ExitAssertion_Dropped(self) == TRUE

\* The assertion of __exit__.
ExitAssertion(self) == Truthy(old_scope[self])

\* __exit__ returns None: the with statement does not suppress the exception.
ExitSuppresses == Truthy(None)

\* No call in progress.
\* The fields from outer on are those of a build call; outer is "build" while
\* the lower call that build makes is in progress.
NoCall == [fn |-> "none", args |-> <<>>, binds_given |-> FALSE, seed |-> EmptyDict,
           name |-> "", simple_mode |-> FALSE,
           outer |-> "none", sch |-> "none", args_given |-> FALSE,
           target |-> "", target_host |-> ""]
\* The locals of lower, then those of build.
NoLocals == [sch |-> 0, bounds |-> 0, stmt |-> 0, binds |-> EmptyDict, arg_list |-> <<>>,
             fapi |-> 0, warp_size |-> 0, fsplits |-> <<>>, target_host |-> "",
             mhost |-> 0, mdev |-> 0, imports |-> <<>>]
\* imports: the modules the returned module has imported, in order.
NoReturn == [err |-> "none", msg |-> "", kind |-> "none", value |-> 0,
             binds |-> EmptyDict, arg_list |-> <<>>, imports |-> <<>>]

InitCall ==
    /\ call = NoCall
    /\ pc = "idle"
    /\ loc = NoLocals
    /\ trace = <<>>
    /\ ret = NoReturn

InitConfig ==
    /\ attr = <<EmptyDict>>
    /\ old_scope = <<None>>
    /\ current = Root
    /\ exc = "none"
    /\ err = "ok"
    /\ scopes = <<>>
    /\ lifo = TRUE
    /\ ctor = <<EmptyDict>>
    /\ entered = {}
    /\ nenter = 0
    /\ last = [op |-> "start", cfg |-> None, kw |-> EmptyDict]

Init ==
    /\ InitConfig
    /\ InitCall
    /\ table = EmptyDict

\* BuildConfig(**kwargs), also reached through build_config(**kwargs).
BuildConfig_init(kwargs) ==
    /\ exc = "none"
    /\ IF InvalidArgument(kwargs)
       THEN /\ err' = "ValueError"
            /\ last' = [op |-> "init", cfg |-> None, kw |-> kwargs]
            /\ UNCHANGED <<attr, old_scope, ctor>>
       ELSE /\ Len(attr) < MaxObjects
            /\ attr' = Append(attr, kwargs)
            /\ old_scope' = Append(old_scope, None)
            /\ ctor' = Append(ctor, kwargs)
            /\ err' = "ok"
            /\ last' = [op |-> "init", cfg |-> Len(attr) + 1, kw |-> kwargs]
    /\ UNCHANGED <<current, exc, scopes, lifo, entered, nenter, callvars>>

\* self.__enter__()
BuildConfig_enter(self) ==
    /\ exc = "none"
    /\ nenter < MaxEnters
    /\ nenter' = nenter + 1
    /\ old_scope' = [old_scope EXCEPT ![self] = current]
    /\ attr' = [attr EXCEPT ![self] = EnterAttr(current, self)]
    /\ current' = self
    /\ scopes' = Append(scopes, [cfg |-> self, prev |-> current,
                                 prevAttr |-> attr[current]])
    /\ entered' = entered \cup {self}
    /\ err' = "ok"
    /\ last' = [op |-> "enter", cfg |-> self, kw |-> EmptyDict]
    /\ UNCHANGED <<exc, lifo, ctor, callvars>>

Innermost == scopes[Len(scopes)]

\* The open activations without the innermost activation of self.
RECURSIVE CloseInnermostOf(_, _)
CloseInnermostOf(s, self) ==
    IF s = <<>> THEN <<>>
    ELSE IF s[Len(s)].cfg = self THEN SubSeq(s, 1, Len(s) - 1)
    ELSE Append(CloseInnermostOf(SubSeq(s, 1, Len(s) - 1), self), s[Len(s)])

\* self.__exit__(ptype, value, trace). While an exception is in flight the with
\* statement calls it on the innermost open scope.
BuildConfig_exit(self) ==
    /\ exc # "none" => (scopes # <<>> /\ Innermost.cfg = self)
    /\ IF ExitAssertion(self)
       THEN /\ current' = old_scope[self]
            /\ err' = "ok"
            /\ exc' = IF ExitSuppresses THEN "none" ELSE exc
            /\ scopes' = CloseInnermostOf(scopes, self)
       ELSE /\ err' = "AssertionError"
            /\ UNCHANGED <<current, exc, scopes>>
    /\ lifo' = (lifo /\ scopes # <<>> /\ Innermost.cfg = self)
    /\ last' = [op |-> "exit", cfg |-> self, kw |-> EmptyDict]
    /\ UNCHANGED <<attr, old_scope, ctor, entered, nenter, callvars>>

\* The body of the innermost with-block raises.
BodyRaises ==
    /\ exc = "none"
    /\ lifo
    /\ scopes # <<>>
    /\ exc' = "Error"
    /\ last' = [op |-> "raise", cfg |-> Innermost.cfg, kw |-> EmptyDict]
    /\ UNCHANGED <<attr, old_scope, current, err, scopes, lifo, ctor, entered, nenter,
                   callvars>>

\* The exception has left every with-block: it reaches the caller.
ErrorReachesCaller ==
    /\ exc # "none"
    /\ scopes = <<>>
    /\ err' = exc
    /\ exc' = "none"
    /\ last' = [op |-> "caller", cfg |-> None, kw |-> EmptyDict]
    /\ UNCHANGED <<attr, old_scope, current, scopes, lifo, ctor, entered, nenter,
                   callvars>>

\* Any sequence of constructions and of direct __enter__ and __exit__ calls.
Next ==
    \/ \E kwargs \in Kwargs : BuildConfig_init(kwargs)
    \/ \E self \in Objects : BuildConfig_enter(self)
    \/ \E self \in Objects : BuildConfig_exit(self)

Spec == Init /\ [][Next]_vars

\* Programs that enter and leave scopes through with statements only.
NextWith ==
    \/ \E kwargs \in Kwargs : BuildConfig_init(kwargs)
    \/ \E self \in Objects : BuildConfig_enter(self)
    \/ scopes # <<>> /\ BuildConfig_exit(Innermost.cfg)
    \/ BodyRaises
    \/ ErrorReachesCaller

SpecWith == Init /\ [][NextWith]_vars

(***************************************************************************)
(* get_binds                                                               *)
(***************************************************************************)
\* Arguments to a function in one call.
MaxArgs == 3

Node(kind, id, name, shape, dtype) ==
    [kind |-> kind, id |-> id, name |-> name, shape |-> shape, dtype |-> dtype]

\* Two tensors of one name and a third; identity is the id.
TensorA1 == Node("Tensor", 1, "A", <<4>>, "float32")
TensorA2 == Node("Tensor", 2, "A", <<4>>, "float32")
TensorB == Node("Tensor", 3, "B", <<2, 2>>, "int32")
\* Buffers the caller made before the call.
BufferX == Node("Buffer", 1, "X", <<4>>, "float32")
BufferY == Node("Buffer", 2, "Y", <<2, 2>>, "int32")
GivenBuffers == {BufferX, BufferY}
VarN == Node("Var", 1, "n", <<>>, "int32")
\* A value that is none of Tensor, Buffer, Var.
IntConst == Node("int", 1, "7", <<>>, "int")

ArgPool == {TensorA1, TensorA2, BufferX, VarN, IntConst}

RECURSIVE SeqsUpTo(_, _)
SeqsUpTo(S, n) ==
    IF n = 0 THEN {<<>>}
    ELSE LET shorter == SeqsUpTo(S, n - 1)
         IN shorter \cup {Append(q, x) : q \in shorter, x \in S}

ArgLists == SeqsUpTo(ArgPool, MaxArgs)

\* Dicts a caller may pass as binds.
SeedTables == {EmptyDict, TensorA1 :> BufferY, TensorB :> BufferY}

\* api.decl_buffer(x.shape, dtype=x.dtype, name=x.name): the n-th Buffer object
\* made during the call, distinct from every buffer there was before.
decl_buffer(x, n) ==
    Node("Buffer", Cardinality(GivenBuffers) + n, x.name, x.shape, x.dtype)

\* Mutant of LocalBinds: binds is used without the copy.
LocalBinds_NoCopy(given, d) ==
    IF ~given THEN [aliased |-> FALSE, d |-> EmptyDict]
    ELSE [aliased |-> TRUE, d |-> d]

\* binds = {} if binds is None else binds.copy(): the dict the loop writes
\* to, and whether it is the caller's own object.
LocalBinds(given, d) ==
    IF ~given THEN [aliased |-> FALSE, d |-> EmptyDict]
    ELSE [aliased |-> FALSE, d |-> d]

\* Mutant of NotBound: the assertion is left out.
NotBound_Dropped(x, binds) == TRUE

\* assert x not in binds
NotBound(x, binds) == x \notin DOMAIN binds

\* The loop of get_binds from argument i on; n counts the buffers declared.
RECURSIVE get_binds_loop(_, _, _, _, _)
get_binds_loop(args, i, binds, arg_list, n) ==
    IF i > Len(args)
    THEN [err |-> "ok", binds |-> binds, arg_list |-> arg_list]
    ELSE LET x == args[i] IN
         IF x.kind = "Tensor"
         THEN LET buf == decl_buffer(x, n + 1) IN
              IF ~NotBound(x, binds)
              THEN [err |-> "AssertionError", binds |-> binds, arg_list |-> arg_list]
              ELSE get_binds_loop(args, i + 1, DictUpdate(binds, x :> buf),
                                  Append(arg_list, buf), n + 1)
         ELSE IF x.kind = "Buffer"
         THEN get_binds_loop(args, i + 1, binds, Append(arg_list, x), n)
         ELSE IF x.kind = "Var"
         THEN get_binds_loop(args, i + 1, binds, Append(arg_list, x), n)
         ELSE [err |-> "ValueError", binds |-> binds, arg_list |-> arg_list]

\* get_binds(args, binds): how it ends, the dict and list it built, and the
\* caller's dict after the call (written to only if the local dict is it).
get_binds(args, given, d) ==
    LET local == LocalBinds(given, d)
        r == get_binds_loop(args, 1, local.d, <<>>, 0)
    IN [err |-> r.err, binds |-> r.binds, arg_list |-> r.arg_list,
        caller |-> IF local.aliased THEN r.binds ELSE d]

\* A call record of the trace.
Called(fn, ins, binds, cfg, name, arg_list, num) ==
    [fn |-> fn, ins |-> ins, binds |-> binds, cfg |-> cfg, name |-> name,
     arg_list |-> arg_list, num |-> num]

\* A direct call get_binds(args) or get_binds(args, table).
get_binds_call(args, given) ==
    /\ pc = "idle" /\ call.fn = "none"
    /\ LET r == get_binds(args, given, table) IN
       /\ call' = [NoCall EXCEPT !.fn = "get_binds", !.args = args,
                                 !.binds_given = given, !.seed = table]
       /\ table' = r.caller
       /\ ret' = IF r.err = "ok"
                 THEN [NoReturn EXCEPT !.err = "ok", !.kind = "tuple",
                                       !.binds = r.binds, !.arg_list = r.arg_list]
                 ELSE [NoReturn EXCEPT !.err = r.err]
       /\ pc' = "done"
    /\ UNCHANGED <<cfgvars, loc, trace>>

\* The caller goes on after the call has ended.
CallerContinues ==
    /\ pc = "done" /\ call.outer = "none"
    /\ pc' = "idle"
    /\ call' = NoCall
    /\ loc' = NoLocals
    /\ trace' = <<>>
    /\ ret' = NoReturn
    /\ UNCHANGED <<cfgvars, table>>

InitBinds ==
    /\ InitConfig
    /\ InitCall
    /\ table \in SeedTables

NextBinds ==
    \/ \E args \in ArgLists, given \in BOOLEAN : get_binds_call(args, given)
    \/ CallerContinues

SpecBinds == InitBinds /\ [][NextBinds]_vars

(***************************************************************************)
(* lower                                                                   *)
(***************************************************************************)
\* The last argument of the MakeAPI call.
NumUnpackedArgs == 0

\* The schedule the caller passes: the value no call of the trace produced.
CallerSchedule == 0

\* Mutant of StepAfter: InjectVirtualThread runs before VectorizeLoop.
StepAfter_Swapped(step, simple_mode) ==
    CASE step = "get_binds" -> "normalize"
      [] step = "normalize" -> "InferBound"
      [] step = "InferBound" -> "ScheduleOps"
      [] step = "ScheduleOps" -> "StorageFlatten"
      [] step = "StorageFlatten" -> "CanonicalSimplify"
      [] step = "CanonicalSimplify" ->
            IF ~simple_mode THEN "LoopPartition" ELSE "InjectVirtualThread"
      [] step = "LoopPartition" -> "InjectVirtualThread"
      [] step = "InjectVirtualThread" -> "VectorizeLoop"
      [] step = "VectorizeLoop" -> "StorageRewrite"
      [] step = "StorageRewrite" -> "UnrollLoop"
      [] step = "UnrollLoop" -> "Simplify"
      [] step = "Simplify" -> IF simple_mode THEN "return" ELSE "MakeAPI"
      [] OTHER -> "done"

\* Mutant of StepAfter: LoopPartition runs whatever simple_mode is.
StepAfter_AlwaysPartition(step, simple_mode) ==
    CASE step = "get_binds" -> "normalize"
      [] step = "normalize" -> "InferBound"
      [] step = "InferBound" -> "ScheduleOps"
      [] step = "ScheduleOps" -> "StorageFlatten"
      [] step = "StorageFlatten" -> "CanonicalSimplify"
      [] step = "CanonicalSimplify" -> "LoopPartition"
      [] step = "LoopPartition" -> "VectorizeLoop"
      [] step = "VectorizeLoop" -> "InjectVirtualThread"
      [] step = "InjectVirtualThread" -> "StorageRewrite"
      [] step = "StorageRewrite" -> "UnrollLoop"
      [] step = "UnrollLoop" -> "Simplify"
      [] step = "Simplify" -> IF simple_mode THEN "return" ELSE "MakeAPI"
      [] OTHER -> "done"

\* The statement lower goes to after the call named step has returned.
StepAfter(step, simple_mode) ==
    CASE step = "get_binds" -> "normalize"
      [] step = "normalize" -> "InferBound"
      [] step = "InferBound" -> "ScheduleOps"
      [] step = "ScheduleOps" -> "StorageFlatten"
      [] step = "StorageFlatten" -> "CanonicalSimplify"
      [] step = "CanonicalSimplify" ->
            IF ~simple_mode THEN "LoopPartition" ELSE "VectorizeLoop"
      [] step = "LoopPartition" -> "VectorizeLoop"
      [] step = "VectorizeLoop" -> "InjectVirtualThread"
      [] step = "InjectVirtualThread" -> "StorageRewrite"
      [] step = "StorageRewrite" -> "UnrollLoop"
      [] step = "UnrollLoop" -> "Simplify"
      [] step = "Simplify" -> IF simple_mode THEN "return" ELSE "MakeAPI"
      [] OTHER -> "done"

\* The value the call being made returns: its place in the trace.
Out == Len(trace) + 1

\* lower(sch, args, name, binds, simple_mode) is called.
lower_call(args, given, name, simple_mode) ==
    /\ pc = "idle" /\ call.fn = "none"
    /\ call' = [NoCall EXCEPT !.fn = "lower", !.args = args, !.binds_given = given,
                              !.seed = table, !.name = name,
                              !.simple_mode = simple_mode]
    /\ pc' = "get_binds"
    /\ loc' = [NoLocals EXCEPT !.sch = CallerSchedule]
    /\ trace' = <<>>
    /\ ret' = NoReturn
    /\ UNCHANGED <<cfgvars, table>>

\* binds, arg_list = get_binds(args, binds)
lower_get_binds ==
    /\ pc = "get_binds" /\ call.fn = "lower"
    /\ LET r == get_binds(call.args, call.binds_given, table) IN
       /\ table' = r.caller
       /\ trace' = Append(trace, Called("get_binds", <<>>, r.binds, <<>>, "",
                                        r.arg_list, 0))
       /\ IF r.err = "ok"
          THEN /\ loc' = [loc EXCEPT !.binds = r.binds, !.arg_list = r.arg_list]
               /\ pc' = StepAfter("get_binds", call.simple_mode)
               /\ ret' = ret
          ELSE /\ pc' = "done"
               /\ ret' = [NoReturn EXCEPT !.err = r.err]
               /\ loc' = loc
    /\ UNCHANGED <<cfgvars, call>>

\* One call of a pass: it returns, and lower goes on with newloc, or it
\* raises, and lower ends with that exception.
Pass(step, ins, binds, cfg, newloc) ==
    /\ pc = step /\ call.fn = "lower"
    /\ trace' = Append(trace, Called(step, ins, binds, cfg, "", <<>>, 0))
    /\ \E returns \in BOOLEAN :
          IF returns
          THEN /\ pc' = StepAfter(step, call.simple_mode)
               /\ loc' = newloc
               /\ ret' = ret
          ELSE /\ pc' = "done"
               /\ loc' = loc
               /\ ret' = [NoReturn EXCEPT !.err = "PassError"]
    /\ UNCHANGED <<cfgvars, table, call>>

\* sch = sch.normalize()
lower_normalize ==
    Pass("normalize", <<loc.sch>>, EmptyDict, <<>>, [loc EXCEPT !.sch = Out])

\* bounds = schedule.InferBound(sch)
lower_InferBound ==
    Pass("InferBound", <<loc.sch>>, EmptyDict, <<>>, [loc EXCEPT !.bounds = Out])

\* stmt = schedule.ScheduleOps(sch, bounds)
lower_ScheduleOps ==
    Pass("ScheduleOps", <<loc.sch, loc.bounds>>, EmptyDict, <<>>,
         [loc EXCEPT !.stmt = Out])

\* stmt = ir_pass.StorageFlatten(stmt, binds)
lower_StorageFlatten ==
    Pass("StorageFlatten", <<loc.stmt>>, loc.binds, <<>>, [loc EXCEPT !.stmt = Out])

\* stmt = ir_pass.CanonicalSimplify(stmt)
lower_CanonicalSimplify ==
    Pass("CanonicalSimplify", <<loc.stmt>>, EmptyDict, <<>>, [loc EXCEPT !.stmt = Out])

\* stmt = ir_pass.LoopPartition(stmt)
lower_LoopPartition ==
    Pass("LoopPartition", <<loc.stmt>>, EmptyDict, <<>>, [loc EXCEPT !.stmt = Out])

\* stmt = ir_pass.VectorizeLoop(stmt)
lower_VectorizeLoop ==
    Pass("VectorizeLoop", <<loc.stmt>>, EmptyDict, <<>>, [loc EXCEPT !.stmt = Out])

\* stmt = ir_pass.InjectVirtualThread(stmt)
lower_InjectVirtualThread ==
    Pass("InjectVirtualThread", <<loc.stmt>>, EmptyDict, <<>>,
         [loc EXCEPT !.stmt = Out])

\* stmt = ir_pass.StorageRewrite(stmt)
lower_StorageRewrite ==
    Pass("StorageRewrite", <<loc.stmt>>, EmptyDict, <<>>, [loc EXCEPT !.stmt = Out])

\* The three options lower reads from cfg = BuildConfig.current.
UnrollArgs(cfg) ==
    << BuildConfig_getattr(attr[cfg], "auto_unroll_max_step"),
       BuildConfig_getattr(attr[cfg], "auto_unroll_min_depth"),
       BuildConfig_getattr(attr[cfg], "unroll_explicit") >>

\* cfg = BuildConfig.current; stmt = ir_pass.UnrollLoop(stmt, ...)
lower_UnrollLoop ==
    Pass("UnrollLoop", <<loc.stmt>>, EmptyDict, UnrollArgs(current),
         [loc EXCEPT !.stmt = Out])

\* stmt = ir_pass.Simplify(stmt)
lower_Simplify ==
    Pass("Simplify", <<loc.stmt>>, EmptyDict, <<>>, [loc EXCEPT !.stmt = Out])

\* if simple_mode: return stmt
lower_return_stmt ==
    /\ pc = "return" /\ call.fn = "lower"
    /\ pc' = "done"
    /\ ret' = [NoReturn EXCEPT !.err = "ok", !.kind = "Stmt", !.value = loc.stmt]
    /\ UNCHANGED <<cfgvars, table, call, loc, trace>>

\* return ir_pass.MakeAPI(stmt, name, arg_list, 0)
lower_MakeAPI ==
    /\ pc = "MakeAPI" /\ call.fn = "lower"
    /\ trace' = Append(trace, Called("MakeAPI", <<loc.stmt>>, EmptyDict, <<>>,
                                     call.name, loc.arg_list, NumUnpackedArgs))
    /\ pc' = "done"
    /\ \E returns \in BOOLEAN :
          ret' = IF returns
                 THEN [NoReturn EXCEPT !.err = "ok", !.kind = "LoweredFunc",
                                       !.value = Out]
                 ELSE [NoReturn EXCEPT !.err = "PassError"]
    /\ UNCHANGED <<cfgvars, table, call, loc>>

\* Inputs of the lower calls of the model.
LowerArgLists ==
    { <<>>, <<TensorA1, BufferX, VarN>>, <<TensorA2, TensorA1>>,
      <<TensorA1, IntConst>> }
LowerNames == {"default_function", "f"}
LowerKwargs == GoodKwargs \ {EmptyDict}

\* No call is in progress: the caller runs.
CallerRuns == pc = "idle" /\ call.fn = "none"

InitLower ==
    /\ InitConfig
    /\ InitCall
    /\ table = (TensorA1 :> BufferY)

\* Calls of lower with the root config current.
NextLower ==
    \/ \E args \in LowerArgLists, given \in BOOLEAN, name \in LowerNames,
          simple_mode \in BOOLEAN : lower_call(args, given, name, simple_mode)
    \/ lower_get_binds
    \/ lower_normalize
    \/ lower_InferBound
    \/ lower_ScheduleOps
    \/ lower_StorageFlatten
    \/ lower_CanonicalSimplify
    \/ lower_LoopPartition
    \/ lower_VectorizeLoop
    \/ lower_InjectVirtualThread
    \/ lower_StorageRewrite
    \/ lower_UnrollLoop
    \/ lower_Simplify
    \/ lower_return_stmt
    \/ lower_MakeAPI
    \/ CallerContinues

SpecLower == InitLower /\ [][NextLower]_vars

\* Calls of lower between and inside with-blocks of config scopes.
NextLowerScoped ==
    \/ \E kwargs \in LowerKwargs : CallerRuns /\ BuildConfig_init(kwargs)
    \/ \E self \in Objects : CallerRuns /\ BuildConfig_enter(self)
    \/ CallerRuns /\ scopes # <<>> /\ BuildConfig_exit(Innermost.cfg)
    \/ \E simple_mode \in BOOLEAN :
          lower_call(<<TensorA1, BufferX, VarN>>, FALSE, "default_function",
                     simple_mode)
    \/ lower_get_binds
    \/ lower_normalize
    \/ lower_InferBound
    \/ lower_ScheduleOps
    \/ lower_StorageFlatten
    \/ lower_CanonicalSimplify
    \/ lower_LoopPartition
    \/ lower_VectorizeLoop
    \/ lower_InjectVirtualThread
    \/ lower_StorageRewrite
    \/ lower_UnrollLoop
    \/ lower_Simplify
    \/ lower_return_stmt
    \/ lower_MakeAPI
    \/ CallerContinues

SpecLowerScoped == InitLower /\ [][NextLowerScoped]_vars

(***************************************************************************)
(* build                                                                   *)
(***************************************************************************)
\* Fragments one SplitHostDevice call yields, the host fragment included.
MaxFragments == 3

\* The function the caller passes when sch is a LoweredFunc: the value no call
\* of the trace produced.
CallerFunction == 0

\* target_host=None, among the strings a caller may pass.
NoTargetHost == "None"

\* Python truth of a target or target_host value: None and "" are false.
TruthyStr(x) == x \notin {NoTargetHost, ""}

\* if args: an argument list that is given and not empty.
TruthyArgs(args_given, args) == args_given /\ Len(args) > 0

MissingArgsMessage == "args must be given for build from schedule"
UnexpectedArgsMessage == "args must be done when build from LoweredFunc"
InvalidSchMessage == "sch have to be Schedule or LoweredFunc"

\* Fragment part of the list the call at place at of the trace returned.
Fragment(at, part) == [call |-> at, part |-> part]

\* Mutant of GlobalBarrier: the option is read from the root config.
GlobalBarrier_AtRoot(cfg) == BuildConfig_getattr(attr[Root], "detect_global_barrier")

\* BuildConfig.current.detect_global_barrier
GlobalBarrier(cfg) == BuildConfig_getattr(attr[cfg], "detect_global_barrier")

\* Mutant of WarpSize: every device target gets warps of 32.
WarpSize_AnyDevice(target) == IF target \in {"cuda", "opencl"} THEN 32 ELSE 1

\* warp_size = 32 if target == "cuda" else 1
WarpSize(target) == IF target = "cuda" THEN 32 ELSE 1

\* fsplits[0]
HostFragment(fsplits) == fsplits[1]

\* Mutant of DeviceFragments: the host fragment goes to the device too.
DeviceFragments_All(fsplits) == fsplits

\* fsplits[1:]
DeviceFragments(fsplits) == Tail(fsplits)

\* Mutant of DefaultTargetHost: llvm without asking whether it is enabled.
DefaultTargetHost_Llvm(enabled) == "llvm"

\* "llvm" if module.enabled("llvm") else "stackvm"
DefaultTargetHost(enabled) == IF enabled THEN "llvm" ELSE "stackvm"

\* Mutant of SingleTarget: a given target_host is used for the only fragment.
SingleTarget_Host(target, target_host) ==
    IF TruthyStr(target_host) THEN target_host ELSE target

\* The target of codegen.build_module(fsplits[0], target) at line 249.
SingleTarget(target, target_host) == target

\* The statement build goes to after the step named step.
BuildStepAfter(step, cfg, nfrag, target_host, target) ==
    CASE step = "lowered" ->
            IF GlobalBarrier(cfg) THEN "StorageSync_global" ELSE "StorageSync_shared"
      [] step = "StorageSync_global" -> "StorageSync_shared"
      [] step = "StorageSync_shared" -> "LowerThreadAllreduce"
      [] step = "LowerThreadAllreduce" -> "SplitHostDevice"
      [] step = "SplitHostDevice" -> "LowerPackedCall"
      [] step = "LowerPackedCall" ->
            IF nfrag > 1
            THEN IF ~TruthyStr(target_host) THEN "module_enabled"
                 ELSE "build_module_host"
            ELSE "build_module"
      [] step = "module_enabled" -> "build_module_host"
      [] step = "build_module_host" ->
            IF TruthyStr(target) THEN "build_module_dev" ELSE "return_mhost"
      [] step = "build_module_dev" -> "import_module"
      [] step = "import_module" -> "return_mhost"
      [] OTHER -> "done"

\* The statement after step in the build in progress.
BuildNext(step, fsplits, target_host) ==
    BuildStepAfter(step, current, Len(fsplits), target_host, call.target)

\* build(sch, args, target, target_host, name, binds) is called: lines 220 to
\* 231, up to the call of lower or the use of sch as fapi.
build_call(sch, args_given, args, target, target_host, name, given) ==
    /\ pc = "idle" /\ call.fn = "none"
    /\ trace' = <<>>
    /\ LET c == [NoCall EXCEPT !.fn = "build", !.sch = sch,
                               !.args_given = args_given, !.args = args,
                               !.target = target, !.target_host = target_host,
                               !.name = name, !.binds_given = given,
                               !.seed = table]
           raise(msg) ==
               /\ call' = c
               /\ pc' = "done"
               /\ loc' = NoLocals
               /\ ret' = [NoReturn EXCEPT !.err = "ValueError", !.msg = msg]
       IN
       IF sch = "Schedule"
       THEN IF ~args_given
            THEN raise(MissingArgsMessage)
            ELSE /\ call' = [c EXCEPT !.fn = "lower", !.outer = "build",
                                      !.simple_mode = FALSE]
                 /\ pc' = "get_binds"
                 /\ loc' = [NoLocals EXCEPT !.sch = CallerSchedule,
                                            !.target_host = target_host]
                 /\ ret' = NoReturn
       ELSE IF sch = "LoweredFunc"
       THEN IF TruthyArgs(args_given, args)
            THEN raise(UnexpectedArgsMessage)
            ELSE /\ call' = c
                 /\ loc' = [NoLocals EXCEPT !.fapi = CallerFunction,
                                            !.target_host = target_host]
                 /\ pc' = BuildStepAfter("lowered", current, 0, target_host, target)
                 /\ ret' = NoReturn
       ELSE raise(InvalidSchMessage)
    /\ UNCHANGED <<cfgvars, table>>

\* fapi = lower(sch, args, name=name, binds=binds) has ended: build goes on
\* with the function, or the exception of lower leaves build.
build_lowered ==
    /\ pc = "done" /\ call.fn = "lower" /\ call.outer = "build"
    /\ call' = [call EXCEPT !.fn = "build", !.outer = "none"]
    /\ IF ret.err = "ok"
       THEN /\ loc' = [loc EXCEPT !.fapi = ret.value]
            /\ pc' = BuildNext("lowered", loc.fsplits, loc.target_host)
            /\ ret' = NoReturn
       ELSE UNCHANGED <<pc, loc, ret>>
    /\ UNCHANGED <<cfgvars, table, trace>>

\* Mutant of BuildStep: the failure is recorded and build goes on.
BuildStep_GoesOn(step, called, newloc) ==
    /\ pc = step /\ call.fn = "build"
    /\ trace' = Append(trace, called)
    /\ pc' = BuildNext(step, newloc.fsplits, newloc.target_host)
    /\ loc' = newloc
    /\ \E returns \in BOOLEAN :
          ret' = IF returns THEN ret ELSE [NoReturn EXCEPT !.err = "PassError"]
    /\ UNCHANGED <<cfgvars, table, call>>

\* One collaborator call of build: it returns, and build goes on with newloc,
\* or it raises, and build ends with that exception.
BuildStep(step, called, newloc) ==
    /\ pc = step /\ call.fn = "build"
    /\ trace' = Append(trace, called)
    /\ \E returns \in BOOLEAN :
          IF returns
          THEN /\ pc' = BuildNext(step, newloc.fsplits, newloc.target_host)
               /\ loc' = newloc
               /\ ret' = ret
          ELSE /\ pc' = "done"
               /\ loc' = loc
               /\ ret' = [NoReturn EXCEPT !.err = "PassError"]
    /\ UNCHANGED <<cfgvars, table, call>>

\* fapi = ir_pass.StorageSync(fapi, "global")
build_StorageSync_global ==
    BuildStep("StorageSync_global",
              Called("StorageSync", <<loc.fapi>>, EmptyDict, <<>>, "global", <<>>, 0),
              [loc EXCEPT !.fapi = Out])

\* fapi = ir_pass.StorageSync(fapi, "shared")
build_StorageSync_shared ==
    BuildStep("StorageSync_shared",
              Called("StorageSync", <<loc.fapi>>, EmptyDict, <<>>, "shared", <<>>, 0),
              [loc EXCEPT !.fapi = Out])

\* warp_size = ...; fapi = ir_pass.LowerThreadAllreduce(fapi, warp_size)
build_LowerThreadAllreduce ==
    LET warp_size == WarpSize(call.target) IN
    BuildStep("LowerThreadAllreduce",
              Called("LowerThreadAllreduce", <<loc.fapi>>, EmptyDict, <<>>, "", <<>>,
                     warp_size),
              [loc EXCEPT !.fapi = Out, !.warp_size = warp_size])

\* fsplits = [s for s in ir_pass.SplitHostDevice(fapi)]: the split decides
\* how many fragments there are.
build_SplitHostDevice ==
    \E n \in 1..MaxFragments :
        BuildStep("SplitHostDevice",
                  Called("SplitHostDevice", <<loc.fapi>>, EmptyDict, <<>>, "", <<>>, 0),
                  [loc EXCEPT !.fsplits = [k \in 1..n |-> Fragment(Out, k - 1)]])

\* fsplits[0] = ir_pass.LowerPackedCall(fsplits[0])
build_LowerPackedCall ==
    BuildStep("LowerPackedCall",
              Called("LowerPackedCall", <<HostFragment(loc.fsplits)>>, EmptyDict, <<>>,
                     "", <<>>, 0),
              [loc EXCEPT !.fsplits[1] = Fragment(Out, 0)])

\* if not target_host: target_host = "llvm" if module.enabled("llvm") else
\* "stackvm": the build of the library decides what module.enabled returns.
build_module_enabled ==
    /\ pc = "module_enabled" /\ call.fn = "build"
    /\ \E enabled \in BOOLEAN :
          /\ trace' = Append(trace, Called("module.enabled", <<>>, EmptyDict, <<>>,
                                           "llvm", <<>>, IF enabled THEN 1 ELSE 0))
          /\ loc' = [loc EXCEPT !.target_host = DefaultTargetHost(enabled)]
    /\ pc' = BuildNext("module_enabled", loc.fsplits, loc.target_host)
    /\ UNCHANGED <<cfgvars, table, call, ret>>

\* mhost = codegen.build_module(fsplits[0], target_host)
build_module_host ==
    BuildStep("build_module_host",
              Called("build_module", <<loc.fsplits[1]>>, EmptyDict, <<>>,
                     loc.target_host, <<>>, 0),
              [loc EXCEPT !.mhost = Out, !.imports = <<>>])

\* mdev = codegen.build_module(fsplits[1:], target)
build_module_dev ==
    BuildStep("build_module_dev",
              Called("build_module", DeviceFragments(loc.fsplits), EmptyDict, <<>>,
                     call.target, <<>>, 0),
              [loc EXCEPT !.mdev = Out])

\* mhost.import_module(mdev)
build_import_module ==
    BuildStep("import_module",
              Called("import_module", <<loc.mhost, loc.mdev>>, EmptyDict, <<>>, "",
                     <<>>, 0),
              [loc EXCEPT !.imports = Append(loc.imports, loc.mdev)])

\* return mhost
build_return_mhost ==
    /\ pc = "return_mhost" /\ call.fn = "build"
    /\ pc' = "done"
    /\ ret' = [NoReturn EXCEPT !.err = "ok", !.kind = "Module", !.value = loc.mhost,
                               !.imports = loc.imports]
    /\ UNCHANGED <<cfgvars, table, call, loc, trace>>

\* return codegen.build_module(fsplits[0], target)
build_module_single ==
    /\ pc = "build_module" /\ call.fn = "build"
    /\ trace' = Append(trace, Called("build_module", <<loc.fsplits[1]>>, EmptyDict,
                                     <<>>, SingleTarget(call.target, call.target_host),
                                     <<>>, 0))
    /\ pc' = "done"
    /\ \E returns \in BOOLEAN :
          ret' = IF returns
                 THEN [NoReturn EXCEPT !.err = "ok", !.kind = "Module", !.value = Out]
                 ELSE [NoReturn EXCEPT !.err = "PassError"]
    /\ UNCHANGED <<cfgvars, table, call, loc>>

\* Inputs of the build calls of the model.
BuildSchs == {"Schedule", "LoweredFunc", "other"}
BuildArgLists == { <<>>, <<TensorA1, BufferX, VarN>>, <<TensorA1, IntConst>> }
BuildTargets == {"llvm", "cuda", "opencl", ""}
BuildTargetHosts == {NoTargetHost, "", "llvm", "stackvm"}

\* The steps of lower.
LowerSteps ==
    \/ lower_get_binds
    \/ lower_normalize
    \/ lower_InferBound
    \/ lower_ScheduleOps
    \/ lower_StorageFlatten
    \/ lower_CanonicalSimplify
    \/ lower_LoopPartition
    \/ lower_VectorizeLoop
    \/ lower_InjectVirtualThread
    \/ lower_StorageRewrite
    \/ lower_UnrollLoop
    \/ lower_Simplify
    \/ lower_return_stmt
    \/ lower_MakeAPI

\* The steps of build once it has the lowered function.
BuildSteps ==
    \/ build_StorageSync_global
    \/ build_StorageSync_shared
    \/ build_LowerThreadAllreduce
    \/ build_SplitHostDevice
    \/ build_LowerPackedCall
    \/ build_module_enabled
    \/ build_module_host
    \/ build_module_dev
    \/ build_import_module
    \/ build_return_mhost
    \/ build_module_single

\* The options of the scope the caller of build may be in.
ScopeKwargs ==
    ("auto_unroll_max_step" :> 0) @@ ("auto_unroll_min_depth" :> 2) @@
        ("detect_global_barrier" :> FALSE)

\* The state inside  with BuildConfig(**ScopeKwargs):  entered at the root.
InScopeConfig ==
    /\ attr = <<EmptyDict, ScopeKwargs>>
    /\ old_scope = <<None, Root>>
    /\ current = 2
    /\ exc = "none"
    /\ err = "ok"
    /\ scopes = <<[cfg |-> 2, prev |-> Root, prevAttr |-> EmptyDict]>>
    /\ lifo = TRUE
    /\ ctor = <<EmptyDict, ScopeKwargs>>
    /\ entered = {2}
    /\ nenter = 1
    /\ last = [op |-> "enter", cfg |-> 2, kw |-> EmptyDict]

\* The caller is at the root config or inside that scope.
InitBuild ==
    /\ InitConfig \/ InScopeConfig
    /\ InitCall
    /\ table = (TensorA1 :> BufferY)

\* Calls of build, and of lower, at the root config or inside one scope.
NextBuild ==
    \/ \E sch \in BuildSchs, args \in BuildArgLists, target \in BuildTargets,
          target_host \in BuildTargetHosts :
          build_call(sch, TRUE, args, target, target_host, "default_function", FALSE)
    \/ \E sch \in BuildSchs, target \in BuildTargets,
          target_host \in BuildTargetHosts :
          build_call(sch, FALSE, <<>>, target, target_host, "default_function", FALSE)
    \/ \E simple_mode \in BOOLEAN :
          lower_call(<<TensorA1, BufferX, VarN>>, FALSE, "default_function",
                     simple_mode)
    \/ LowerSteps
    \/ build_lowered
    \/ BuildSteps
    \/ CallerContinues

SpecBuild == InitBuild /\ [][NextBuild]_vars

\* Calls of build on a lowered function between and inside with-blocks of
\* config scopes.
NextBuildScoped ==
    \/ \E kwargs \in LowerKwargs : CallerRuns /\ BuildConfig_init(kwargs)
    \/ \E self \in Objects : CallerRuns /\ BuildConfig_enter(self)
    \/ CallerRuns /\ scopes # <<>> /\ BuildConfig_exit(Innermost.cfg)
    \/ build_call("LoweredFunc", FALSE, <<>>, "llvm", NoTargetHost,
                  "default_function", FALSE)
    \/ BuildSteps
    \/ CallerContinues

SpecBuildScoped == InitLower /\ [][NextBuildScoped]_vars

(***************************************************************************)
(* Names the specification uses.                                           *)
(***************************************************************************)
RecognizedOptions ==
    {"auto_unroll_max_step", "auto_unroll_min_depth", "unroll_explicit",
     "detect_global_barrier"}

InvalidConfigOption == "ValueError"
UnbalancedScope == "AssertionError"
DuplicateBinding == "AssertionError"
UnsupportedArgumentKind == "ValueError"

\* The configs that are entered and not yet exited.
OpenConfigs == {scopes[i].cfg : i \in 1..Len(scopes)}

(***************************************************************************)
(* C1. Round-trip restoration: in every LIFO-nested sequence of enters and *)
(* exits, each exit makes current the config that was current when that    *)
(* scope was entered, with the option values it had then; so after the     *)
(* outermost exit current is what it was before the outermost enter.       *)
(***************************************************************************)
C1_RoundTrip ==
    [][ Len(scopes') < Len(scopes) =>
          /\ current' = Innermost.prev
          /\ attr'[current'] = Innermost.prevAttr ]_vars

(***************************************************************************)
(* C2. Inheritance and override-wins: whenever a config is entered, each   *)
(* option it was constructed with reads as that explicit value, and each   *)
(* other recognized option reads as the previously current config's value. *)
(***************************************************************************)
C2_InheritOverride ==
    [][ Len(scopes') > Len(scopes) =>
          \A name \in RecognizedOptions :
              BuildConfig_getattr(attr'[current'], name) =
                  IF name \in DOMAIN ctor[current']
                  THEN ctor[current'][name]
                  ELSE BuildConfig_getattr(attr[current], name) ]_vars

(***************************************************************************)
(* C3. Unbalanced exit is rejected: an exit of a config that is not        *)
(* currently entered (never entered, or already exited) fails with         *)
(* UnbalancedScope and leaves current unchanged.                           *)
(***************************************************************************)
C3_UnbalancedExitRejected ==
    [][ (last'.op = "exit" /\ last'.cfg \notin OpenConfigs) =>
          (err' = UnbalancedScope /\ current' = current) ]_vars

(***************************************************************************)
(* C4. Exception-safe exit: when a with-body ends with an error, the exit  *)
(* of that scope makes current the config that was current before the      *)
(* scope was entered, and the error stays in flight towards the caller.    *)
(***************************************************************************)
C4_ErrorExitRestores ==
    [][ (exc # "none" /\ last'.op = "exit") =>
          (current' = Innermost.prev /\ exc' = exc) ]_vars

(***************************************************************************)
(* C5. current is never null and the root is never popped: current always  *)
(* refers to a config object, and an exit attempted on the root config     *)
(* fails and does not change current.                                      *)
(***************************************************************************)
C5_RootExitAlwaysFails ==
    /\ current \in Objects
    /\ [][ /\ current' \in 1..Len(attr')
           /\ (last'.op = "exit" /\ last'.cfg = Root) =>
                  (err' = UnbalancedScope /\ current' = current) ]_vars

\* C5 as amended: current always refers to a config object, and an exit
\* attempted on the root config fails and does not change current as long as
\* the root config has not itself been entered as a scope.
C5_CurrentNeverNull ==
    /\ current \in Objects
    /\ [][ /\ current' \in 1..Len(attr')
           /\ (last'.op = "exit" /\ last'.cfg = Root /\ Root \notin entered) =>
                  (err' = UnbalancedScope /\ current' = current) ]_vars

\* An exit of the never-entered root was attempted inside an open scope.
C5_Witness ==
    /\ last.op = "exit" /\ last.cfg = Root
    /\ Root \notin entered
    /\ err = UnbalancedScope
    /\ current # Root

(***************************************************************************)
(* C6. Constructing a config with any unrecognized option name fails with  *)
(* InvalidConfigOption and creates no config; construction, failing or     *)
(* not, never changes current.                                             *)
(***************************************************************************)
C6_InvalidOptionRejected ==
    [][ last'.op = "init" =>
          /\ current' = current
          /\ (DOMAIN last'.kw \ RecognizedOptions # {}) =>
                 /\ err' = InvalidConfigOption
                 /\ attr' = attr /\ old_scope' = old_scope
          /\ (DOMAIN last'.kw \subseteq RecognizedOptions) =>
                 /\ err' = "ok"
                 /\ attr' = Append(attr, last'.kw) ]_vars

\* A construction mixing recognized and unrecognized names was rejected
\* inside an open scope.
C6_Witness ==
    /\ last.op = "init"
    /\ err = InvalidConfigOption
    /\ DOMAIN last.kw \ RecognizedOptions # {}
    /\ DOMAIN last.kw \cap RecognizedOptions # {}
    /\ current # Root

\* The binding table a finished get_binds call started from.
SeededTable == IF call.binds_given THEN call.seed ELSE EmptyDict

TensorPositions == {i \in 1..Len(call.args) : call.args[i].kind = "Tensor"}

GetBindsEnded == pc = "done" /\ call.fn = "get_binds"

(***************************************************************************)
(* C7. get_binds is order-preserving and pure: on success the argument     *)
(* list has the length of the input, its i-th element is the fresh buffer  *)
(* bound to the i-th argument when that is a tensor and the i-th argument  *)
(* itself otherwise; the table returned is the seeded table plus exactly   *)
(* one entry per tensor argument; the caller's table is unchanged on       *)
(* success and on failure.                                                 *)
(***************************************************************************)
C7_OrderPreservingPure ==
    GetBindsEnded =>
        /\ table = call.seed
        /\ ret.err = "ok" =>
            /\ Len(ret.arg_list) = Len(call.args)
            /\ \A i \in 1..Len(call.args) :
                 LET x == call.args[i]
                     y == ret.arg_list[i]
                 IN IF x.kind = "Tensor"
                    THEN /\ y.kind = "Buffer"
                         /\ y \notin GivenBuffers
                         /\ \A j \in 1..Len(ret.arg_list) : j # i => ret.arg_list[j] # y
                         /\ x \in DOMAIN ret.binds /\ ret.binds[x] = y
                         /\ y.name = x.name /\ y.shape = x.shape /\ y.dtype = x.dtype
                    ELSE y = x
            /\ DOMAIN ret.binds =
                  DOMAIN SeededTable \cup {call.args[i] : i \in TensorPositions}
            /\ \A t \in DOMAIN SeededTable : ret.binds[t] = SeededTable[t]
            /\ Cardinality(DOMAIN ret.binds) =
                  Cardinality(DOMAIN SeededTable) + Cardinality(TensorPositions)

\* A call with a tensor, a buffer and a variable and a non-empty seeded table
\* has succeeded.
C7_Witness ==
    /\ GetBindsEnded /\ ret.err = "ok"
    /\ call.binds_given /\ call.seed # EmptyDict
    /\ {call.args[i].kind : i \in 1..Len(call.args)} = {"Tensor", "Buffer", "Var"}

\* Argument i cannot be resolved: a tensor that the table already holds
\* (seeded, or bound by an earlier occurrence), or no Tensor, Buffer or Var.
AlreadyBound(i) ==
    /\ call.args[i].kind = "Tensor"
    /\ \/ call.args[i] \in DOMAIN SeededTable
       \/ \E j \in 1..(i - 1) : call.args[j] = call.args[i]
Unsupported(i) == call.args[i].kind \notin {"Tensor", "Buffer", "Var"}
Offending == {i \in 1..Len(call.args) : AlreadyBound(i) \/ Unsupported(i)}
FirstOffending == CHOOSE i \in Offending : \A j \in Offending : i <= j

\* Two tensors of one name and different identities get two entries.
SameNameDistinctEntries ==
    \A i, j \in TensorPositions :
        (ret.err = "ok" /\ call.args[i] # call.args[j]
            /\ call.args[i].name = call.args[j].name) =>
        /\ {call.args[i], call.args[j]} \subseteq DOMAIN ret.binds
        /\ ret.binds[call.args[i]] # ret.binds[call.args[j]]

(***************************************************************************)
(* C8. Binding entries are never overwritten: a list in which a tensor     *)
(* appears twice or is already in the seeded table fails with              *)
(* DuplicateBinding; a list with an argument that is no tensor, buffer or  *)
(* variable fails with UnsupportedArgumentKind; two tensors of one name    *)
(* and different identities get two distinct entries.                      *)
(***************************************************************************)
C8_EachDefectItsError ==
    GetBindsEnded =>
        /\ (\E i \in 1..Len(call.args) : AlreadyBound(i)) => ret.err = DuplicateBinding
        /\ (\E i \in 1..Len(call.args) : Unsupported(i)) =>
               ret.err = UnsupportedArgumentKind
        /\ SameNameDistinctEntries

\* C8 as amended: the call fails with the error of the first argument, in
\* input order, that cannot be resolved: DuplicateBinding for a tensor the
\* table already holds, UnsupportedArgumentKind for an argument of no
\* recognized kind; it succeeds when there is none, and then two tensors of
\* one name and different identities have two distinct entries.
C8_FirstDefectDecides ==
    GetBindsEnded =>
        /\ Offending = {} => ret.err = "ok"
        /\ Offending # {} =>
               ret.err = IF AlreadyBound(FirstOffending)
                         THEN DuplicateBinding ELSE UnsupportedArgumentKind
        /\ SameNameDistinctEntries

\* A list with a repeated tensor followed by an unsupported argument failed
\* with DuplicateBinding.
C8_Witness ==
    /\ GetBindsEnded
    /\ ret.err = DuplicateBinding
    /\ \E i \in 1..Len(call.args) : AlreadyBound(i) /\ \E j \in (i + 1)..Len(call.args) : Unsupported(j)

\* The steps of lower as the specification lists them.
LowerOrder ==
    << "get_binds", "normalize", "InferBound", "ScheduleOps", "StorageFlatten",
       "CanonicalSimplify", "LoopPartition", "VectorizeLoop",
       "InjectVirtualThread", "StorageRewrite", "UnrollLoop", "Simplify",
       "MakeAPI" >>

\* The calls made so far by the call in progress, by name.
Invoked == [i \in 1..Len(trace) |-> trace[i].fn]

NotPartitionNorWrap(fn) == fn \notin {"LoopPartition", "MakeAPI"}

LowerReturned == pc = "done" /\ call.fn = "lower" /\ ret.err = "ok"

(***************************************************************************)
(* C9. Fixed lowering order: a successful lower with simple_mode false     *)
(* has invoked, once each and in this order, get_binds, normalize,         *)
(* InferBound, ScheduleOps, StorageFlatten, CanonicalSimplify,             *)
(* LoopPartition, VectorizeLoop, InjectVirtualThread, StorageRewrite,      *)
(* UnrollLoop, Simplify, MakeAPI; MakeAPI got the given name, the argument *)
(* list get_binds resolved, and a reserved-argument count of zero.         *)
(***************************************************************************)
C9_FixedLoweringOrder ==
    (LowerReturned /\ ~call.simple_mode) =>
        /\ Invoked = LowerOrder
        /\ LET wrap == trace[Len(trace)] IN
           /\ wrap.name = call.name
           /\ wrap.arg_list = trace[1].arg_list
           /\ Len(wrap.arg_list) = Len(call.args)
           /\ \A i \in 1..Len(call.args) :
                 IF call.args[i].kind = "Tensor"
                 THEN wrap.arg_list[i] = trace[1].binds[call.args[i]]
                 ELSE wrap.arg_list[i] = call.args[i]
           /\ wrap.num = 0

\* A non-simple lower named "f" with a tensor, a buffer and a variable has
\* returned its LoweredFunc.
C9_Witness ==
    /\ LowerReturned /\ ~call.simple_mode
    /\ call.name = "f"
    /\ call.args = <<TensorA1, BufferX, VarN>>
    /\ ret.kind = "LoweredFunc"

C11_SimpleSkipsUnroll ==
    (call.fn = "lower" /\ call.simple_mode) =>
        \A i \in 1..Len(trace) : trace[i].fn # "UnrollLoop"

\* The value of option name in effect by the open scopes s: that of the
\* innermost open scope constructed with it, else the system default.
RECURSIVE InnermostExplicit(_, _)
InnermostExplicit(s, name) ==
    IF s = <<>> THEN defaults[name]
    ELSE IF name \in DOMAIN ctor[s[Len(s)].cfg] THEN ctor[s[Len(s)].cfg][name]
    ELSE InnermostExplicit(SubSeq(s, 1, Len(s) - 1), name)

(***************************************************************************)
(* C12. Unroll parameters follow the scope in effect at the call: the      *)
(* three values lower passes to UnrollLoop are, for each of                *)
(* auto_unroll_max_step, auto_unroll_min_depth and unroll_explicit, the    *)
(* innermost open scope's explicit override, else the system default       *)
(* 0 / 1 / true; so a lower called after every scope has exited passes the *)
(* defaults.                                                               *)
(***************************************************************************)
C12_UnrollFollowsScope ==
    \A i \in 1..Len(trace) :
        trace[i].fn = "UnrollLoop" =>
            trace[i].cfg = << InnermostExplicit(scopes, "auto_unroll_max_step"),
                              InnermostExplicit(scopes, "auto_unroll_min_depth"),
                              InnermostExplicit(scopes, "unroll_explicit") >>

\* The errors of build's input validation, by their messages.
MissingArguments == MissingArgsMessage
UnexpectedArguments == UnexpectedArgsMessage
InvalidBuildInput == InvalidSchMessage

\* A build call is in progress or has ended, its lower call included.
InBuild == call.fn = "build" \/ call.outer = "build"

\* The build call failed with the validation error named by msg before any
\* collaborator was invoked.
BuildRejected(msg) ==
    /\ pc = "done" /\ call.fn = "build"
    /\ ret.err = "ValueError" /\ ret.msg = msg
    /\ ret.kind = "none"
    /\ trace = <<>>

(***************************************************************************)
(* C13. build input validation: build with a schedule and no arguments     *)
(* fails with MissingArguments; build with an already-lowered function     *)
(* fails with UnexpectedArguments whenever arguments are provided, an      *)
(* empty argument list included; build with any other input fails with     *)
(* InvalidBuildInput; in all three cases no pass, split or codegen         *)
(* collaborator was invoked before the failure.                            *)
(***************************************************************************)
C13_BuildValidation ==
    InBuild =>
        /\ (call.sch = "Schedule" /\ ~call.args_given) =>
               BuildRejected(MissingArguments)
        /\ (call.sch = "LoweredFunc" /\ call.args_given) =>
               BuildRejected(UnexpectedArguments)
        /\ (call.sch \notin {"Schedule", "LoweredFunc"}) =>
               BuildRejected(InvalidBuildInput)

\* The places of the trace where fn was invoked.
Where(fn) == {i \in 1..Len(trace) : trace[i].fn = fn}
\* The StorageSync calls at one memory level.
Syncs(level) == {i \in Where("StorageSync") : trace[i].name = level}
Only(S) == CHOOSE i \in S : TRUE

\* The build has gone past its synchronization steps.
PastSync == InBuild /\ Where("LowerThreadAllreduce") # {}

BuildReturned == pc = "done" /\ call.fn = "build" /\ ret.err = "ok"

(***************************************************************************)
(* C14. Global barrier switch: in a build that passed input validation the *)
(* global StorageSync is invoked if and only if detect_global_barrier of   *)
(* the current config reads true at that point (so a scope that sets it    *)
(* false around the build suppresses it), and before the shared            *)
(* StorageSync, which is invoked exactly once whatever the config.         *)
(***************************************************************************)
C14_GlobalBarrierSwitch ==
    InBuild =>
        LET flag == BuildConfig_getattr(attr[current], "detect_global_barrier") IN
        /\ Cardinality(Syncs("global")) <= 1
        /\ Cardinality(Syncs("shared")) <= 1
        /\ Syncs("global") # {} => flag
        /\ Syncs("shared") # {} =>
              (flag <=> (Syncs("global") # {}
                           /\ Only(Syncs("global")) < Only(Syncs("shared"))))
        /\ PastSync => Cardinality(Syncs("shared")) = 1

\* A build inside a scope that reads detect_global_barrier false, the root
\* reading true, returned with the shared sync and without the global one.
C14_Witness ==
    /\ BuildReturned
    /\ scopes # <<>>
    /\ ~BuildConfig_getattr(attr[current], "detect_global_barrier")
    /\ BuildConfig_getattr(attr[Root], "detect_global_barrier")
    /\ Syncs("global") = {} /\ Syncs("shared") # {}

\* The place of the trace whose value is the lowered function build works
\* on: the MakeAPI call of lower, or the caller's function.
LoweredAt == IF call.sch = "Schedule" THEN Len(LowerOrder) ELSE 0
LoweredValue == IF call.sch = "Schedule" THEN Len(LowerOrder) ELSE CallerFunction

\* The fragments the split at place h yielded after the host fragment.
DeviceFragmentsOf(h) == [k \in 1..(Len(loc.fsplits) - 1) |-> Fragment(h, k)]

(***************************************************************************)
(* C15. Fixed build order: in a successful build, after the lowered        *)
(* function is obtained (by lower with simple_mode false for a schedule,   *)
(* as given for a lowered function), the steps run in this order, each on  *)
(* the result of the one before: the global StorageSync if any, the shared *)
(* StorageSync, LowerThreadAllreduce, SplitHostDevice, LowerPackedCall,    *)
(* code generation; LowerPackedCall is applied to fragment 0 only, and     *)
(* fragments 1..N reach device code generation as the split yielded them.  *)
(***************************************************************************)
C15_FixedBuildOrder ==
    BuildReturned =>
        LET g == Syncs("global")
            first == LoweredAt + 1
            s == IF g = {} THEN first ELSE first + 1
            a == s + 1
            h == a + 1
            p == h + 1
        IN
        /\ call.sch = "Schedule" =>
              /\ Len(trace) > Len(LowerOrder)
              /\ [i \in 1..Len(LowerOrder) |-> trace[i].fn] = LowerOrder
              /\ trace[LoweredAt].name = call.name
        /\ call.sch = "LoweredFunc" => Where("MakeAPI") = {}
        /\ Len(trace) > p
        /\ g \in {{}, {first}}
        /\ Syncs("shared") = {s}
        /\ Where("LowerThreadAllreduce") = {a}
        /\ Where("SplitHostDevice") = {h}
        /\ Where("LowerPackedCall") = {p}
        /\ Where("build_module") # {}
        /\ \A i \in (p + 1)..Len(trace) :
              trace[i].fn \in {"module.enabled", "build_module", "import_module"}
        /\ trace[first].ins = <<LoweredValue>>
        /\ \A i \in (first + 1)..h : trace[i].ins = <<i - 1>>
        /\ trace[p].ins = <<Fragment(h, 0)>>
        /\ \A i \in Where("build_module") :
              \/ trace[i].ins = <<Fragment(p, 0)>>
              \/ /\ Len(loc.fsplits) > 1
                 /\ trace[i].ins = DeviceFragmentsOf(h)

\* A build from a schedule returned a module with a device module made of
\* two device fragments.
C15_Witness ==
    /\ BuildReturned
    /\ call.sch = "Schedule"
    /\ Len(loc.fsplits) = 3
    /\ \E i \in Where("build_module") : Len(trace[i].ins) = 2

\* A target_host the caller supplied.
Supplied(target_host) == target_host \notin {NoTargetHost, ""}

\* What module.enabled("llvm") answered in this build.
NativeBackendAvailable == \E i \in Where("module.enabled") : trace[i].num = 1

(***************************************************************************)
(* C16. Device path composition: when the split yields more than one       *)
(* fragment, the host module is generated from fragment 0 against the      *)
(* caller's target_host if supplied, otherwise against llvm if it is       *)
(* enabled and stackvm if not; a device module is generated from fragments *)
(* 1..N against target if and only if target is non-empty, and is then     *)
(* imported into the host module exactly once; the module returned is the  *)
(* host module, with one imported submodule when target is non-empty and   *)
(* none when it is empty.                                                  *)
(***************************************************************************)
C16_DevicePath ==
    (BuildReturned /\ Len(loc.fsplits) > 1) =>
        LET p == Only(Where("LowerPackedCall"))
            h == Only(Where("SplitHostDevice"))
            gens == Where("build_module")
            host == CHOOSE i \in gens : \A j \in gens : i <= j
            devs == gens \ {host}
        IN
        /\ trace[host].ins = <<Fragment(p, 0)>>
        /\ trace[host].name =
              IF Supplied(call.target_host) THEN call.target_host
              ELSE IF NativeBackendAvailable THEN "llvm" ELSE "stackvm"
        /\ Supplied(call.target_host) => Where("module.enabled") = {}
        /\ Cardinality(devs) = IF call.target # "" THEN 1 ELSE 0
        /\ Cardinality(Where("import_module")) = Cardinality(devs)
        /\ \A d \in devs :
              /\ trace[d].ins = DeviceFragmentsOf(h)
              /\ trace[d].name = call.target
              /\ \A i \in Where("import_module") :
                    i > d /\ trace[i].ins = <<host, d>>
              /\ ret.imports = <<d>>
        /\ devs = {} => ret.imports = <<>>
        /\ ret.kind = "Module" /\ ret.value = host

\* A build without target_host, llvm not enabled, returned the host module
\* with its device module imported.
C16_Witness ==
    /\ BuildReturned /\ Len(loc.fsplits) > 1
    /\ ~Supplied(call.target_host)
    /\ Where("module.enabled") # {} /\ ~NativeBackendAvailable
    /\ call.target = "cuda"
    /\ Len(ret.imports) = 1

(***************************************************************************)
(* C17. No-device path: when the split yields exactly one fragment, build  *)
(* performs exactly one code generation, of fragment 0 against the         *)
(* requested target (not target_host, whatever target_host the caller      *)
(* supplied, also when target is a device target such as cuda), performs   *)
(* no import, does not ask whether a backend is enabled, and returns that  *)
(* module with no imported submodules.                                     *)
(***************************************************************************)
C17_NoDevicePath ==
    (InBuild /\ Len(loc.fsplits) = 1) =>
        /\ Where("import_module") = {}
        /\ Where("module.enabled") = {}
        /\ Cardinality(Where("build_module")) <= 1
        /\ \A i \in Where("build_module") :
              /\ trace[i].ins = <<Fragment(Only(Where("LowerPackedCall")), 0)>>
              /\ trace[i].name = call.target
        /\ BuildReturned =>
              /\ Where("build_module") = {Len(trace)}
              /\ ret.kind = "Module" /\ ret.value = Len(trace)
              /\ ret.imports = <<>>

\* A build for cuda with target_host given returned the module of its only
\* fragment.
C17_Witness ==
    /\ BuildReturned /\ Len(loc.fsplits) = 1
    /\ call.target = "cuda" /\ call.target_host = "llvm"

(***************************************************************************)
(* C18. Warp-size policy: in a build that passed input validation, the     *)
(* warp size passed to LowerThreadAllreduce is 32 exactly when target is   *)
(* "cuda" and 1 for every other target, the empty one included, whatever   *)
(* target_host, the config, and the number of fragments the split yields   *)
(* later.                                                                  *)
(***************************************************************************)
C18_WarpSize ==
    InBuild =>
        \A i \in Where("LowerThreadAllreduce") :
            /\ call.target = "cuda" => trace[i].num = 32
            /\ call.target # "cuda" => trace[i].num = 1

\* A build for cuda inside a scope, with target_host given and no device
\* fragment, has passed 32.
C18_Witness ==
    /\ BuildReturned
    /\ call.target = "cuda" /\ call.target_host = "stackvm"
    /\ current # Root
    /\ Len(loc.fsplits) = 1
    /\ \E i \in Where("LowerThreadAllreduce") : trace[i].num = 32

\* A collaborator step of the lower or build call in progress has failed.
StepFailed == call.fn \in {"lower", "build"} /\ ret.err = "PassError"

(***************************************************************************)
(* C19. Failure aborts the whole invocation: once a collaborator step of   *)
(* lower or build has failed (a pass, the split, host codegen, device      *)
(* codegen or the import), no further step of that invocation is invoked,  *)
(* the failed step is not retried, the failure reaches the caller with no  *)
(* module or lowered artifact returned, and no step of lower or build,     *)
(* failing or not, changes the current config.                             *)
(***************************************************************************)
C19_FailureAborts ==
    [][ /\ StepFailed =>
              /\ trace' = trace \/ (pc' = "idle" /\ call'.fn = "none")
              /\ pc = "done"
              /\ ret' = ret \/ (pc' = "idle" /\ call'.fn = "none")
        /\ StepFailed' =>
              /\ pc' = "done"
              /\ ret'.kind = "none" /\ ret'.value = 0 /\ ret'.imports = <<>>
        /\ (call.fn # "none" \/ call'.fn # "none") =>
              /\ current' = current
              /\ attr' = attr /\ old_scope' = old_scope ]_vars

\* Inside a scope, the import into a host module that was generated failed:
\* the build ended with the failure and returned nothing.
C19_Witness ==
    /\ StepFailed /\ call.fn = "build" /\ pc = "done"
    /\ trace[Len(trace)].fn = "import_module"
    /\ loc.mhost # 0
    /\ ret.kind = "none"
    /\ current # Root

(***************************************************************************)
(* C20. Published configs are not changed by nested scopes: entering or    *)
(* exiting a scope never changes the option values read from a config that *)
(* is an enclosing, still-open scope, or the root, at that moment; and the *)
(* option values read from the current config just after a scope exits are *)
(* those read from the current config just before that scope was entered. *)
(***************************************************************************)
C20_PublishedUnchanged ==
    [][ last'.op \in {"enter", "exit"} =>
          /\ \A c \in OpenConfigs \cup {Root} : Options(attr'[c]) = Options(attr[c])
          /\ Len(scopes') < Len(scopes) =>
                Options(attr'[current']) = Options(Innermost.prevAttr) ]_vars

====
